---- MODULE Spec2Model ----
(***************************************************************************)
(* Model of video-scheduler.py: the Telegram -> overlay -> YouTube Shorts  *)
(* pipeline.  One cycle is one run of task() / process_new_media(); the    *)
(* steps of a cycle are the calls process_new_media makes, in order, with  *)
(* pc holding the position of the single thread of control.                *)
(***************************************************************************)
EXTENDS Integers, Sequences, FiniteSets, TLC

(* ------------------------------ bounds -------------------------------- *)
\* number of updates the chat source hands out over a run
MaxId == 3
\* number of updates the chat source holds unconfirmed at once
MaxPending == 2
\* number of next_chunk() calls that report "not finished yet" in one upload
MaxChunks == 2
\* largest width and height, in pixels, of a video or an image
MaxDim == 8

(* --------------------------- value domains ---------------------------- *)
\* conversation ids: CONFIG['chat_id'] and one other conversation
DefaultChat == "chat_cfg"
Chats == {"chat_cfg", "chat_555"}
\* what the message of an update carries; "bad" is a photo/video entry
\* that lacks its file_id
Media == {"photo", "video", "none", "bad"}
Visibilities == {"private", "unlisted", "public"}
\* name of the one video file the library folder may hold at start; the
\* files downloaded later are named after the update that carried them
LibraryVideo == 0

NoUpdate == [update_id |-> 0, has_id |-> FALSE, media |-> "none", chat |-> "chat_cfg"]
NoPath == [folder |-> "none", name |-> 0]
NoResponse == [body |-> "None", ok |-> FALSE, has_result |-> FALSE, result |-> <<>>]

\* no VideoFileClip and no CompositeVideoClip made in this cycle
NoStreams == [background |-> "none", composited |-> "none"]

Has(seq, e) == \E i \in 1..Len(seq) : seq[i] = e

VARIABLES
  cursor,          \* CONFIG['last_update_id']
  privacy_status,  \* CONFIG['privacy_status']
  pending,         \* chat source: updates not yet confirmed, ascending ids
  nextId,          \* chat source: identifier of the next update
  pc,              \* position of the thread of control
  updates,         \* process_new_media: the poll response
  pollCursor,      \* history: the cursor when the poll was issued
  last_update,     \* process_new_media: last_update
  downloaded_path, \* process_new_media: downloaded_path
  images,          \* files of CONFIG['images_folder']
  videos,          \* files of CONFIG['videos_folder']
  outputFiles,     \* overlay_<name>.mp4 files of CONFIG['output_folder']
  overlay_path,    \* process_new_media: overlay_path (name of the background)
  image_file,      \* create_overlay_video: image_file
  streams,         \* create_overlay_video: state of video and final_video
  chunks,          \* upload_youtube_short: next_chunk() calls made
  video_id,        \* process_new_media: video_id
  youtube,         \* process_new_media: youtube (TRUE: a client, FALSE: None)
  last_send,       \* send_message: how the last request ended
  visibility,      \* publishing target: privacyStatus of the uploaded asset
  events,          \* history: calls made in this cycle, in order
  notes,           \* history: send_message calls of this cycle, in order
  actedNow,        \* history: update ids acted upon in this cycle
  actedCount,      \* history: cycles that acted upon each id (stops at 2)
  resize           \* resize_image_for_video: its arguments and its result

vars == <<cursor, privacy_status, pending, nextId, pc, updates, pollCursor,
          last_update, downloaded_path, images, videos, outputFiles,
          overlay_path, image_file, chunks, video_id, youtube, last_send,
          visibility, events, notes, actedNow, actedCount, resize, streams>>

config == <<privacy_status>>
server == <<pending, nextId>>
files == <<images, videos, outputFiles>>
upload == <<chunks, video_id, visibility>>
history == <<actedNow, actedCount>>
client == <<youtube, last_send>>

\* no call of resize_image_for_video under way
NoResize == [state |-> "none", image |-> <<0, 0>>, video |-> <<0, 0>>,
             size |-> <<0, 0>>]

InitPipeline ==
  /\ cursor = 0
  /\ privacy_status \in Visibilities
  /\ pending = <<>>
  /\ nextId = 1
  /\ pc = "idle"
  /\ updates = NoResponse
  /\ pollCursor = 0
  /\ last_update = NoUpdate
  /\ downloaded_path = NoPath
  /\ images = {}
  /\ videos \in {{}, {LibraryVideo}}
  /\ outputFiles = {}
  /\ overlay_path = -1
  /\ image_file = -1
  /\ streams = NoStreams
  /\ chunks = 0
  /\ video_id = "None"
  /\ youtube = FALSE
  /\ last_send = "none"
  /\ visibility = "none"
  /\ events = <<>>
  /\ notes = <<>>
  /\ actedNow = {}
  /\ actedCount = [i \in 1..MaxId |-> 0]

Init == InitPipeline /\ resize = NoResize

(* ------------------------- the chat source ---------------------------- *)
\* A sender posts a message: the chat source queues an update under the
\* next identifier.  Only a poll reads the queue, so posts are taken
\* between cycles.
Post ==
  /\ pc = "idle"
  /\ nextId <= MaxId
  /\ Len(pending) < MaxPending
  /\ \E m \in Media \ {"bad"}, c \in Chats :
       pending' = Append(pending,
         [update_id |-> nextId, has_id |-> TRUE, media |-> m, chat |-> c])
  /\ nextId' = nextId + 1
  /\ UNCHANGED <<cursor, config, resize, streams, pc, updates, pollCursor, last_update,
                 downloaded_path, files, overlay_path, image_file, upload,
                 client, events, notes, history>>

(* ------------------------ get_telegram_updates ------------------------ *)
\* params['offset'] of the getUpdates request
PollOffsetStale(cur) == cur

PollOffset(cur) == cur + 1

\* getUpdates(offset): the chat source forgets (confirms) every update
\* below the offset and answers with the rest, in ascending order
Unconfirmed(queue, offset) ==
  SelectSeq(queue, LAMBDA u : u.update_id >= offset)

\* What can come back: the request or the decoding of its body fails
\* ("transport"), the body is JSON but no object ("nondict"), an error
\* object ("not_ok"), an object without its result field ("no_result"),
\* the well-formed answer ("ok"), or an answer whose last element lacks its
\* update_id ("no_id") or the file_id of its media entry ("no_file_id").
Shapes == {"transport", "nondict", "not_ok", "no_result", "ok", "no_id", "no_file_id"}

Mangled(result, field, value) ==
  [i \in 1..Len(result) |->
     IF i = Len(result) THEN [result[i] EXCEPT ![field] = value] ELSE result[i]]

ResponseOf(shape, avail) ==
  CASE shape = "transport"  -> NoResponse
    [] shape = "nondict"    -> [NoResponse EXCEPT !.body = "nondict"]
    [] shape = "not_ok"     -> [NoResponse EXCEPT !.body = "dict"]
    [] shape = "no_result"  -> [NoResponse EXCEPT !.body = "dict", !.ok = TRUE]
    [] shape = "ok"         ->
         [body |-> "dict", ok |-> TRUE, has_result |-> TRUE, result |-> avail]
    [] shape = "no_id"      ->
         [body |-> "dict", ok |-> TRUE, has_result |-> TRUE,
          result |-> Mangled(avail, "has_id", FALSE)]
    [] shape = "no_file_id" ->
         [body |-> "dict", ok |-> TRUE, has_result |-> TRUE,
          result |-> Mangled(avail, "media", "bad")]

\* task() starts a cycle: process_new_media calls get_telegram_updates
GetUpdates ==
  /\ pc = "idle"
  /\ LET avail == Unconfirmed(pending, PollOffset(cursor)) IN
       \E shape \in Shapes :
         /\ shape \in {"no_id", "no_file_id"} => avail # <<>>
         /\ shape = "no_file_id" => avail[Len(avail)].media \in {"photo", "video"}
         /\ updates' = ResponseOf(shape, avail)
         /\ pending' = IF shape = "transport" THEN pending ELSE avail
  /\ pc' = "polled"
  /\ pollCursor' = cursor
  /\ last_update' = NoUpdate
  /\ downloaded_path' = NoPath
  /\ overlay_path' = -1
  /\ image_file' = -1
  /\ streams' = NoStreams
  /\ chunks' = 0
  /\ video_id' = "None"
  /\ youtube' = FALSE
  /\ last_send' = "none"
  /\ visibility' = "none"
  /\ events' = <<>>
  /\ notes' = <<>>
  /\ actedNow' = {}
  /\ UNCHANGED <<cursor, config, resize, nextId, files, actedCount>>

(* ------------------- process_new_media, lines 537-546 ------------------ *)
\* the guard of line 537, for a response that is None or an object
NoUpdatesUnchecked(u) == u.body = "None" \/ ~u.ok

NoUpdates(u) == u.body = "None" \/ ~u.ok \/ ~u.has_result \/ u.result = <<>>

\* updates['result'][-1]
LastUpdateFirst(result) == result[1]

LastUpdate(result) == result[Len(result)]

\* CONFIG['last_update_id'] = last_update['update_id']
AdvanceCursorCount(cur, result) == Len(result)

AdvanceCursorNever(cur, result) == cur

AdvanceCursor(cur, result) == LastUpdate(result).update_id

\* an exception leaves process_new_media, task() and schedule.run_pending():
\* the `while True` loop of the main block ends
Raise ==
  /\ pc' = "dead"
  /\ UNCHANGED <<cursor, last_update, history>>

Return ==
  /\ pc' = "idle"
  /\ UNCHANGED <<cursor, last_update, history>>

Select ==
  /\ pc = "polled"
  /\ IF updates.body = "nondict"
       THEN Raise    \* updates.get: AttributeError
     ELSE IF NoUpdates(updates)
       THEN Return
     ELSE IF ~updates.has_result \/ updates.result = <<>>
       THEN Raise    \* updates['result'][-1]: KeyError, IndexError
     ELSE IF ~LastUpdate(updates.result).has_id
       THEN Raise    \* last_update['update_id']: KeyError
     ELSE LET u == LastUpdate(updates.result) IN
       /\ last_update' = u
       /\ cursor' = AdvanceCursor(cursor, updates.result)
       /\ actedNow' = actedNow \cup {u.update_id}
       /\ actedCount' = [actedCount EXCEPT ![u.update_id] =
                           IF @ < 2 THEN @ + 1 ELSE @]
       /\ pc' = "selected"
  /\ UNCHANGED <<config, resize, streams, server, updates, pollCursor, downloaded_path, files,
                 overlay_path, image_file, upload, client, events, notes>>

(* ------------------------------ send_message --------------------------- *)
\* how the sendMessage request can end: status 200, another status, or an
\* exception of requests.post
SendOutcomes == {"ok", "non200", "exception"}

\* whether send_message lets an exception out: lines 516-523 catch them all
SendRaisesOnException(status) == status = "exception"

SendRaises(status) == FALSE

\* send_message(chat_id, message) posts the text; `at` is the number of
\* calls the cycle had made when the message was sent
SendMessage(log, chat_id, message, at) ==
  Append(log, [chat |-> chat_id, text |-> message, at |-> at])

(* ----------------- download_file, lines 549-557, 394-422 --------------- *)
\* "ok": the file is saved and its path returned; "failed": a request or the
\* decoding of the file metadata raised, None is returned; "write_failed":
\* open() created the file, writing it raised, None is returned
DownloadOutcomes == {"ok", "failed", "write_failed"}

\* target_folder = CONFIG['videos_folder'] if is_video else CONFIG['images_folder']
TargetFolder(is_video) == IF is_video THEN "videos" ELSE "images"

\* line 557: if downloaded_path
ProceedsAlways(path) == TRUE

Proceeds(path) == path # NoPath

Download ==
  /\ pc = "selected"
  /\ IF last_update.media = "bad"
       THEN \* message['photo'][-1]['file_id']: KeyError, outside the try
            /\ pc' = "dead"
            /\ UNCHANGED <<downloaded_path, images, videos, events>>
     ELSE IF last_update.media = "none"
       THEN /\ pc' = "idle"
            /\ UNCHANGED <<downloaded_path, images, videos, events>>
     ELSE \E outcome \in DownloadOutcomes :
       LET folder == TargetFolder(last_update.media = "video")
           name == last_update.update_id
           saved == outcome # "failed"
       IN /\ events' = Append(events, "fetch")
          /\ images' = IF saved /\ folder = "images"
                         THEN images \cup {name} ELSE images
          /\ videos' = IF saved /\ folder = "videos"
                         THEN videos \cup {name} ELSE videos
          /\ downloaded_path' = IF outcome = "ok"
                                  THEN [folder |-> folder, name |-> name]
                                  ELSE NoPath
          /\ pc' = IF Proceeds(downloaded_path') THEN "downloaded" ELSE "idle"
  /\ UNCHANGED <<cursor, config, resize, streams, server, updates, pollCursor, last_update,
                 outputFiles, overlay_path, image_file, upload, client, notes,
                 history>>

(* ------- VideoOverlayGenerator, lines 559-571, 264-284, 306-371 -------- *)
\* "ok": the video is written; "load_failed": preview_selection,
\* VideoFileClip, Image.open or the compositing raised; "encode_failed":
\* write_videofile raised, which create_overlay_video prints and passes over
ComposeOutcomes == {"ok", "load_failed", "encode_failed"}

\* os.remove(downloaded_path), when the path exists
Removed(folder, path, which) ==
  IF path.folder = which THEN folder \ {path.name} ELSE folder

\* the history entry of lines 569-571
RemoveEvent(path) ==
  IF path.folder = "images" THEN <<"remove_image">>
  ELSE IF path.folder = "videos" THEN <<"remove_video">>
  ELSE <<>>

\* what process_new_media does once create_overlay_video has ended: on an
\* exception line 584 prints it; on a return lines 566-573 go on
AfterCompose(outcome) ==
  IF outcome \in {"ok", "encode_failed"} THEN "composed" ELSE "idle"

\* video (line 328) and final_video (line 348) when create_overlay_video
\* ends. A return passes lines 367-368, which close both, also after the
\* write_videofile failure that lines 362-363 pass over. An exception of
\* lines 325-328 (opened = FALSE) leaves before video exists; an exception
\* of lines 332-348 (opened = TRUE: Image.open, resize_image_for_video,
\* ImageClip, set_duration, CompositeVideoClip) leaves with video open and
\* final_video not yet made, and no handler on the way out closes video
StreamsAfter(outcome, opened) ==
  IF outcome \in {"ok", "encode_failed"}
    THEN [background |-> "closed", composited |-> "closed"]
  ELSE IF opened
    THEN [background |-> "open", composited |-> "none"]
  ELSE NoStreams

Compose ==
  /\ pc = "downloaded"
  /\ IF videos = {}
       THEN \* ValueError of get_random_background_video: caught at line 584
            /\ events' = events \o <<"compose", "no_video">>
            /\ pc' = "idle"
            /\ UNCHANGED <<files, overlay_path, image_file, streams>>
     ELSE IF images = {}
       THEN \* image_file is unbound at line 319: caught at line 584
            /\ events' = events \o <<"compose", "no_image">>
            /\ pc' = "idle"
            /\ UNCHANGED <<files, overlay_path, image_file, streams>>
     ELSE \E video_file \in videos, img \in images, outcome \in ComposeOutcomes,
             written \in BOOLEAN, opened \in BOOLEAN :
       /\ outcome = "ok" => written
       /\ outcome = "load_failed" => ~written
       /\ outcome # "load_failed" => opened
       /\ image_file' = img
       /\ streams' = StreamsAfter(outcome, opened)
       /\ outputFiles' = IF written THEN outputFiles \cup {video_file}
                                    ELSE outputFiles
       /\ pc' = AfterCompose(outcome)
       /\ IF pc' = "idle"
            THEN /\ events' = events \o <<"compose", outcome>>
                 /\ UNCHANGED <<images, videos, overlay_path>>
            ELSE /\ overlay_path' = video_file
                 /\ events' = events
                      \o (IF outcome = "ok" THEN <<"compose">>
                                            ELSE <<"compose", outcome>>)
                      \o RemoveEvent(downloaded_path)
                 /\ images' = Removed(images, downloaded_path, "images")
                 /\ videos' = Removed(videos, downloaded_path, "videos")
  /\ UNCHANGED <<cursor, config, resize, server, updates, pollCursor, last_update,
                 downloaded_path, upload, client, notes, history>>

(* --------- validate_config, authenticate_youtube, lines 573-575 -------- *)
\* the client secrets file and the videos folder are created at start-up
\* (lines 70-71, 79-80)
validate_config == TRUE

\* what authenticate_youtube returns: the client (line 142) or None
\* (line 148)
AuthResultAlways(built) == TRUE

AuthResult(built) == built

Authenticate ==
  /\ pc = "composed"
  /\ validate_config
  /\ \E built \in BOOLEAN, status \in SendOutcomes :
       \* googleapiclient.discovery.build returns, or raises (line 144)
       /\ events' = events \o (IF built THEN <<"auth">>
                                        ELSE <<"auth", "build_failed">>)
       /\ notes' = SendMessage(notes, DefaultChat,
                      IF built THEN "auth_ok" ELSE "auth_failed", Len(events'))
       /\ last_send' = status
       /\ youtube' = (AuthResult(built) /\ ~SendRaises(status))
       \* line 575: if youtube
       /\ pc' = IF youtube' THEN "authed" ELSE "idle"
  /\ UNCHANGED <<cursor, config, resize, streams, server, updates, pollCursor, last_update,
                 downloaded_path, files, overlay_path, image_file, upload,
                 history>>

(* ------------------------- upload_youtube_short ------------------------ *)
\* body['status']['privacyStatus'] of the insert request
InsertVisibilityConfigured == privacy_status

InsertVisibility == "private"

\* the except clauses, lines 493-502: report the error, return None; log and
\* sent are the calls and the messages of the try block up to the exception
HandleUploadErrorCleanup(log, sent) ==
  /\ notes' = SendMessage(sent, DefaultChat, "upload_error", Len(log))
  /\ events' = log
  /\ video_id' = "None"
  /\ outputFiles' = outputFiles \ {overlay_path}
  /\ pc' = "idle"

HandleUploadError(log, sent) ==
  /\ notes' = SendMessage(sent, DefaultChat, "upload_error", Len(log))
  /\ events' = log
  /\ video_id' = "None"
  /\ outputFiles' = outputFiles
  /\ pc' = "idle"

\* lines 428-467: MediaFileUpload, videos().insert, the start message
UploadStart ==
  /\ pc = "authed"
  /\ IF ~youtube
       THEN \* lines 430-432: return None
            /\ pc' = "idle"
            /\ UNCHANGED <<visibility, events, notes, last_send>>
     ELSE IF overlay_path \notin outputFiles
       THEN \* MediaFileUpload cannot open the file: caught at line 584
            /\ pc' = "idle"
            /\ UNCHANGED <<visibility, events, notes, last_send>>
       ELSE \E status \in SendOutcomes :
            /\ events' = Append(events, "insert")
            /\ visibility' = InsertVisibility
            /\ notes' = SendMessage(notes, DefaultChat, "upload_start",
                                    Len(events) + 1)
            /\ last_send' = status
            /\ pc' = IF SendRaises(status) THEN "idle" ELSE "uploading"
  /\ UNCHANGED <<cursor, config, resize, streams, server, updates, pollCursor, last_update,
                 downloaded_path, files, overlay_path, image_file, chunks,
                 video_id, youtube, history>>

\* lines 468-472: one insert_request.next_chunk()
ChunkOutcomes == {"more", "done", "error"}

NextChunk ==
  /\ pc = "uploading"
  /\ \E outcome \in ChunkOutcomes :
       /\ outcome = "more" => chunks < MaxChunks
       /\ IF outcome = "error"
            THEN /\ HandleUploadError(Append(events, "chunk_error"), notes)
                 /\ \E status \in SendOutcomes : last_send' = status
                 /\ UNCHANGED chunks
            ELSE /\ chunks' = chunks + 1
                 /\ events' = Append(events, "chunk")
                 /\ pc' = IF outcome = "done" THEN "uploaded" ELSE "uploading"
                 /\ UNCHANGED <<notes, video_id, outputFiles, last_send>>
  /\ UNCHANGED <<cursor, config, resize, streams, server, updates, pollCursor, last_update,
                 downloaded_path, images, videos, overlay_path, image_file,
                 visibility, youtube, history>>

\* lines 474-491: the success message, then videos().update(...).execute()
Finalize ==
  /\ pc = "uploaded"
  /\ \E updated \in BOOLEAN, status \in SendOutcomes :
       IF SendRaises(status)
         THEN /\ notes' = SendMessage(notes, DefaultChat, "upload_ok", Len(events))
              /\ last_send' = status
              /\ pc' = "idle"
              /\ UNCHANGED <<events, visibility, video_id, outputFiles>>
       ELSE IF updated
         THEN /\ notes' = SendMessage(notes, DefaultChat, "upload_ok", Len(events))
              /\ last_send' = status
              /\ events' = Append(events, "update")
              /\ visibility' = privacy_status
              /\ video_id' = "vid"
              /\ pc' = "idle"
              /\ UNCHANGED outputFiles
         ELSE /\ HandleUploadError(Append(events, "update"),
                   SendMessage(notes, DefaultChat, "upload_ok", Len(events)))
              /\ \E status2 \in SendOutcomes : last_send' = status2
              /\ UNCHANGED visibility
  /\ UNCHANGED <<cursor, config, resize, streams, server, updates, pollCursor, last_update,
                 downloaded_path, images, videos, overlay_path, image_file,
                 chunks, youtube, history>>

Next ==
  \/ Post
  \/ GetUpdates
  \/ Select
  \/ Download
  \/ Compose
  \/ Authenticate
  \/ UploadStart
  \/ NextChunk
  \/ Finalize

Spec == Init /\ [][Next]_vars

(* -------- VideoOverlayGenerator.resize_image_for_video, 286-304 -------- *)
\* int(x / y) and int(x * z / y) as Python computes them on floats: the
\* floor of the quotient, or one less when the quotient is a whole number
\* that the rounded aspect ratio misses (int(11 * (15 / 11)) is 14)
IntQuotients(x, y) ==
  IF x % y = 0 /\ x > 0 THEN {x \div y, (x \div y) - 1} ELSE {x \div y}

\* target_height = int(video_height * 0.65)
TargetHeight(video_height) == (video_height * 65) \div 100

\* img_aspect > target_aspect, with img_aspect = image.size[0] / image.size[1]
\* and target_aspect = target_width / target_height
ImageIsWiderInverted(iw, ih, target_width, target_height) ==
  iw * target_height < target_width * ih

ImageIsWider(iw, ih, target_width, target_height) ==
  iw * target_height > target_width * ih

\* the sizes (new_width, new_height) the function can pass to image.resize
NewSizes(iw, ih, video_width, video_height) ==
  LET target_height == TargetHeight(video_height)
      target_width == video_width
  IN IF ImageIsWider(iw, ih, target_width, target_height)
       THEN {<<target_width, h>> : h \in IntQuotients(target_width * ih, iw)}
       ELSE {<<w, target_height>> : w \in IntQuotients(target_height * iw, ih)}

Dims == 1..MaxDim

InitResize ==
  /\ InitPipeline
  /\ \E iw \in Dims, ih \in Dims, vw \in Dims, vh \in Dims :
       resize = [state |-> "called", image |-> <<iw, ih>>, video |-> <<vw, vh>>,
                 size |-> <<0, 0>>]

ResizeImageForVideo ==
  /\ resize.state = "called"
  /\ IF TargetHeight(resize.video[2]) = 0
       THEN \* target_width / target_height: ZeroDivisionError
            resize' = [resize EXCEPT !.state = "raised"]
       ELSE \E sz \in NewSizes(resize.image[1], resize.image[2],
                               resize.video[1], resize.video[2]) :
              resize' = [resize EXCEPT !.state = "returned", !.size = sz]
  /\ UNCHANGED <<cursor, config, streams, server, pc, updates, pollCursor,
                 last_update, downloaded_path, files, overlay_path, image_file, upload,
                 client, events, notes, history>>

NextResize == ResizeImageForVideo

SpecResize == InitResize /\ [][NextResize]_vars

(* ============================== claims ================================ *)
Ids(result) == {result[i].update_id : i \in 1..Len(result)}
MaxOf(S) == CHOOSE m \in S : \A x \in S : x <= m
Count(seq, e) == Cardinality({i \in 1..Len(seq) : seq[i] = e})

\* a poll response that carries N >= 1 updates, each with its identifier
CarriesUpdates(u) ==
  /\ u.body = "dict" /\ u.ok /\ u.has_result /\ u.result # <<>>
  /\ \A i \in 1..Len(u.result) : u.result[i].has_id

\* C1: once process_new_media has gone past its guard on a response of
\* N >= 1 updates, the one update acted upon in the cycle is the update with
\* the maximum identifier and the cursor is that identifier, in every later
\* state of the cycle, whatever the download, the compositing, the
\* authentication or the upload came to.
C1_OnlyMaxActedCursorAdvanced ==
  (pc # "polled" /\ CarriesUpdates(updates)) =>
     LET m == MaxOf(Ids(updates.result)) IN
       /\ actedNow = {m}
       /\ last_update.update_id = m
       /\ cursor = m
       /\ Count(events, "fetch") <= 1

\* C1 witness: a response of two updates, the upload of the cycle failed at
\* a chunk, and the cursor is the second identifier
C1_Witness ==
  /\ pc = "idle"
  /\ CarriesUpdates(updates)
  /\ Len(updates.result) >= 2
  /\ Has(events, "chunk_error")
  /\ cursor = updates.result[2].update_id

\* C2: the cursor never decreases: every step leaves CONFIG['last_update_id']
\* greater than or equal to what it was (from 0 at start).
C2_CursorMonotone == [][cursor' >= cursor]_vars

\* C2 witness: the cursor advanced in two cycles
C2_Witness == pc = "selected" /\ pollCursor >= 1 /\ cursor > pollCursor

\* C3: every update of a poll response, and the update handed to the
\* downstream steps, has an identifier strictly greater than the cursor held
\* when the poll was issued.
C3_PollAboveCursor ==
  /\ \A i \in 1..Len(updates.result) :
       updates.result[i].has_id => updates.result[i].update_id > pollCursor
  /\ last_update # NoUpdate => last_update.update_id > pollCursor

\* C3 witness: a poll issued with an advanced cursor handed an update on
C3_Witness == pc = "downloaded" /\ pollCursor >= 1 /\ Len(updates.result) >= 1

\* C4: no update identifier is acted upon in more than one cycle.
C4_AtMostOnce == \A i \in DOMAIN actedCount : actedCount[i] <= 1

\* C4 witness: a cycle acted upon an update and left its image behind
\* (the work failed after the download); the next poll does not return it
C4_Witness ==
  /\ pc = "polled"
  /\ cursor >= 1
  /\ actedCount[cursor] = 1
  /\ cursor \in images
  /\ updates.body = "dict" /\ updates.ok /\ updates.result = <<>>

\* the poll failed, or answered ok = false, or answered an empty result list
NothingReturned(u) ==
  \/ u.body = "None"
  \/ u.body = "dict" /\ ~u.ok
  \/ u.body = "dict" /\ u.has_result /\ u.result = <<>>

\* C5: after a poll that failed or returned ok = false or an empty result
\* list, the cycle has returned, the cursor is what it was when the poll was
\* issued, and the cycle made no download, compositing, authentication,
\* upload or notification and acted upon no update.
C5_NoUpdateNoEffect ==
  (pc # "polled" /\ NothingReturned(updates)) =>
     /\ pc = "idle"
     /\ cursor = pollCursor
     /\ events = <<>>
     /\ notes = <<>>
     /\ actedNow = {}
     /\ last_update = NoUpdate
     /\ downloaded_path = NoPath

\* C5 witness: the chat source answered ok = false while an update was
\* waiting, and the cycle returned
C5_Witness ==
  /\ pc = "idle"
  /\ updates.body = "dict" /\ ~updates.ok
  /\ pending # <<>>
  /\ pending[Len(pending)].update_id > cursor

\* a response object that misses a field the code reads: its result, or
\* the update_id of an element
Malformed(u) ==
  \/ u.body = "dict" /\ u.ok /\ ~u.has_result
  \/ u.body = "dict" /\ u.ok /\ u.has_result /\
       \E i \in 1..Len(u.result) : ~u.result[i].has_id

\* C6: a malformed poll response is treated as no update: the cycle returns
\* without an exception leaving process_new_media and the cursor is
\* unchanged.
C6_MalformedIsNoUpdate ==
  (pc # "polled" /\ Malformed(updates)) => (pc = "idle" /\ cursor = pollCursor)

\* C7: no error is fatal to the process: the scheduling loop is never ended
\* by what fails inside a cycle, so a next poll can always be issued once the
\* cycle is over.
C7_NoErrorIsFatal == pc # "dead"

\* C8: the asset is private from the opening of the upload session through
\* every chunk; a visibility other than private is the configured one and is
\* there only once the metadata update, issued after the chunk that completed
\* the upload, has been executed.
C8_PrivateUntilFinalized ==
  /\ pc \in {"uploading", "uploaded"} => visibility = "private"
  /\ visibility \notin {"none", "private"} =>
       /\ visibility = privacy_status
       /\ Len(events) >= 2
       /\ events[Len(events)] = "update"
       /\ events[Len(events) - 1] = "chunk"
       /\ ~Has(events, "chunk_error")

\* C8 witness: an upload of three chunks was finalized to public
C8_Witness == visibility = "public" /\ chunks >= 2 /\ video_id = "vid"

\* C9: when a chunk transfer fails, upload_youtube_short ends with the error
\* reported and None returned, the composited file is still there, and no
\* videos().update call was made in the cycle.
C9_ChunkFailureAborts ==
  Has(events, "chunk_error") =>
     /\ pc = "idle"
     /\ video_id = "None"
     /\ notes # <<>> /\ notes[Len(notes)].text = "upload_error"
     /\ overlay_path \in outputFiles
     /\ ~Has(events, "update")
     /\ visibility = "private"

\* C9 witness: a chunk failed after another chunk had been transferred
C9_Witness == Has(events, "chunk_error") /\ chunks >= 1

\* C10: after a cycle in which upload_youtube_short returned a published
\* identifier, the composited output file no longer exists.
C10_AssetDeletedAfterPublish == video_id = "vid" => overlay_path \notin outputFiles

Texts(log) == {log[i].text : i \in 1..Len(log)}
\* the position of the first e in seq, 0 when there is none
Pos(seq, e) ==
  IF Has(seq, e) THEN CHOOSE i \in 1..Len(seq) :
                        seq[i] = e /\ \A j \in 1..(i - 1) : seq[j] # e
                 ELSE 0
\* calls to the publishing target: the client build, insert, next_chunk, update
PublishingCalls == {"auth", "insert", "chunk", "chunk_error", "update"}
CallsMade(S) == \E i \in 1..Len(events) : events[i] \in S
FailureTexts == {"auth_failed", "upload_error"}

\* C11: when the videos folder holds no video file at compositing time, the
\* cycle makes no call to the publishing target and sends a failure
\* notification to the chat.
C11_NoVideoNotified ==
  Has(events, "no_video") =>
     /\ ~CallsMade(PublishingCalls)
     /\ Texts(notes) \cap FailureTexts # {}

\* C12: when the encoding of the composited video fails, compose fails: the
\* cycle ends there, no client is built and no upload of the output file is
\* started.
C12_EncodeFailureStopsCycle ==
  Has(events, "encode_failed") =>
     /\ pc = "idle"
     /\ ~CallsMade(PublishingCalls)

ContinuesAfter(text) ==
  CASE text = "auth_ok"      -> pc' = "authed" /\ youtube'
    [] text = "auth_failed"  -> pc' = "idle" /\ ~youtube'
    [] text = "upload_start" -> pc' = "uploading" /\ Has(events', "insert")
    [] text = "upload_ok"    -> /\ pc' = "idle"
                                /\ video_id' = "vid"
                                /\ events'[Len(events')] = "update"
                                /\ visibility' = privacy_status
    [] text = "upload_error" -> pc' = "idle" /\ video_id' = "None"

\* C14: a step whose send_message got a status other than 200, or an
\* exception, goes on exactly as the step does when the message is
\* delivered.
C14_SendFailureIgnored ==
  [][(Len(notes') > Len(notes) /\ last_send' \in {"non200", "exception"})
       => ContinuesAfter(notes'[Len(notes')].text)]_vars

\* C14 witness: the success message ran into an exception and the asset was
\* finalized all the same
C14_Witness == last_send = "exception" /\ video_id = "vid"

\* C15: every message sent while an update is processed goes to the
\* conversation the update came from.
C15_NotesToOriginChat ==
  \A i \in 1..Len(notes) : notes[i].chat = last_update.chat

\* C16: after a failed media fetch the cycle has ended: the fetch was made
\* once, and no compositing, authentication, upload or message followed.
C16_FetchFailureAborts ==
  (Has(events, "fetch") /\ downloaded_path = NoPath) =>
     /\ pc = "idle"
     /\ events = <<"fetch">>
     /\ notes = <<>>
     /\ overlay_path = -1
     /\ ~youtube

\* C16 witness: the fetch failed while writing the image, with a background
\* video there to composite on
C16_Witness ==
  /\ pc = "idle"
  /\ events = <<"fetch">>
  /\ downloaded_path = NoPath
  /\ last_update.update_id \in images
  /\ videos # {}

C18_OnlyConsumedImageRemoved ==
  /\ ~Has(events, "remove_video")
  /\ Has(events, "remove_image") => ~Has(events, "encode_failed")

\* C19: in a cycle that published, the calls come in the order fetch,
\* composite, client, insert, chunk, update; and a success message is sent
\* only after the update of the asset has been executed.
C19_SuccessAfterFinalization ==
  /\ video_id = "vid" =>
       /\ 0 < Pos(events, "fetch")
       /\ Pos(events, "fetch") < Pos(events, "compose")
       /\ Pos(events, "compose") < Pos(events, "auth")
       /\ Pos(events, "auth") < Pos(events, "insert")
       /\ Pos(events, "insert") < Pos(events, "chunk")
       /\ Pos(events, "chunk") < Pos(events, "update")
  /\ \A i \in 1..Len(notes) :
       notes[i].text = "upload_ok" =>
          /\ Has(events, "update")
          /\ Pos(events, "update") <= notes[i].at
          /\ visibility = privacy_status

\* C20: when the compositor picks its image the images folder holds nothing
\* but the image downloaded in this cycle, and the image used is that one.
C20_ImageOfThisCycle ==
  /\ pc = "downloaded" => images \subseteq {last_update.update_id}
  /\ image_file # -1 =>
       downloaded_path = [folder |-> "images", name |-> image_file]

\* C21: whenever create_overlay_video has ended, by a return or by an
\* exception of image loading, resizing, compositing or encoding, neither
\* the background stream nor the composited stream is left open.
C21_StreamsReleased ==
  Has(events, "compose") =>
     /\ streams.background # "open"
     /\ streams.composited # "open"
====
